---- MODULE Spec2Model ----
(***************************************************************************)
(* A model of the VectorIndex class of src/src/vectorIndex.js: an          *)
(* in-memory list of (vector, metadata) entries with brute-force cosine    *)
(* search, persisted to the IndexedDB database 'VectorIndexDB', object     *)
(* store 'indices' (keyPath 'name').                                       *)
(*                                                                         *)
(* JavaScript objects with dynamic keys (metadata records, search result   *)
(* records, persisted records) are finite maps: sets of <<key, value>>     *)
(* pairs with at most one pair per key.  {} is the empty object.           *)
(*                                                                         *)
(* Numbers.  A caller-supplied number (a double) is [f |-> n, r |-> e]:    *)
(* the value n + e * 2^-30, n a small integer.  A Float32Array element is  *)
(* the integer n it holds.  For 1 <= |n| <= 2 the float32 spacing around n *)
(* is at least 2^-23, so rounding to nearest drops the 2^-30 part; 2^-30   *)
(* itself is a float32, so r = 1 is only used with f # 0.                  *)
(*                                                                         *)
(* Scores.  cosineSimilarity accumulates dotProduct, normA and normB,      *)
(* which are exact integers here, and returns the double                   *)
(* dotProduct / (sqrt(normA) * sqrt(normB)).  A score is kept as the       *)
(* record of those three integers; two scores are compared by the sign     *)
(* and the square of the quotient.  For components in -2..2 and at most    *)
(* two dimensions (and components in -1..1 for three) this order and its   *)
(* ties are those of the IEEE doubles the code computes.                   *)
(***************************************************************************)
EXTENDS Integers, Sequences, FiniteSets, TLC

VARIABLES dimensions, vectors, metadata,   \* the fields of the VectorIndex
          dbVersion, hasStore, store,      \* the IndexedDB database
          pending,                         \* the save/load/delete call in flight
          saved,                           \* history: index state of each resolved save
          last,                            \* the most recent call and its outcome
          startup,                         \* the page's init() and where it stands
          currentQuizIndex, quizScore, quizAttempts,   \* the quiz state
          dom                              \* the quiz elements of the document

index_vars == <<dimensions, vectors, metadata>>
db_vars    == <<dbVersion, hasStore, store>>
quiz_vars  == <<currentQuizIndex, quizScore, quizAttempts, dom>>
page_vars  == <<startup, currentQuizIndex, quizScore, quizAttempts, dom>>
vars       == <<dimensions, vectors, metadata, dbVersion, hasStore, store,
                pending, saved, last, startup, currentQuizIndex, quizScore,
                quizAttempts, dom>>

----------------------------------------------------------------------------
(* Bounds of the model *)

MaxSize == 2          \* add is explored while the index holds fewer entries
MaxK == 3             \* search is explored for k in 0..MaxK

Dims == {1, 2}        \* dimensions passed to the constructor
Vals == {-1, 0, 1}    \* float32 values of vector components
Names == {"a", "b"}   \* keys under which an index is saved

Min(a, b) == IF a < b THEN a ELSE b

----------------------------------------------------------------------------
(* JavaScript objects as finite maps *)

Has(o, k) == \E p \in o : p[1] = k

Get(o, k) == (CHOOSE p \in o : p[1] = k)[2]

\* { ...base, ...o }: the fields of o take precedence
Spread(base, o) == {p \in base : ~Has(o, p[1])} \cup o

----------------------------------------------------------------------------
(* Numbers and typed arrays *)

Doubles == {[f |-> n, r |-> e] : n \in Vals, e \in {0}}
             \cup {[f |-> n, r |-> 1] : n \in Vals \ {0}}

\* the element conversion of new Float32Array(array): round to float32
Fround(x) == x.f

\* a Float32Array element read back as a JavaScript number
ToDouble(n) == [f |-> n, r |-> 0]

\* new Float32Array(v)
Float32Array(v) == [i \in 1..Len(v) |-> Fround(v[i])]

\* Array.from(v) on a Float32Array
ArrayFrom(v) == [i \in 1..Len(v) |-> ToDouble(v[i])]

\* the doubles that are float32 values already
Floats == {ToDouble(n) : n \in Vals}

Lens == {0, 1, 2}     \* lengths of caller-supplied arrays

----------------------------------------------------------------------------
(* cosineSimilarity *)

RECURSIVE SumProd(_, _, _)
SumProd(a, b, n) == IF n = 0 THEN 0 ELSE SumProd(a, b, n - 1) + a[n] * b[n]

Zero == [num |-> 0, na |-> 1, nb |-> 1]

\* cosineSimilarity without the division by the magnitude
cosineSimilarityDotOnly(a, b) ==
    [num |-> SumProd(a, b, Len(a)), na |-> 1, nb |-> 1]

\* cosineSimilarity without the magnitude === 0 case: 0 / 0 for a zero
\* vector
cosineSimilarityNoGuard(a, b) ==
    [num |-> SumProd(a, b, Len(a)), na |-> SumProd(a, a, Len(a)),
     nb |-> SumProd(b, b, Len(a))]

cosineSimilarity(a, b) ==
    LET dotProduct == SumProd(a, b, Len(a))
        normA == SumProd(a, a, Len(a))
        normB == SumProd(b, b, Len(a))
    IN  IF normA = 0 \/ normB = 0      \* magnitude === 0
        THEN Zero
        ELSE [num |-> dotProduct, na |-> normA, nb |-> normB]

Sign(x) == IF x > 0 THEN 1 ELSE IF x < 0 THEN -1 ELSE 0

\* s < t as numbers: compare sign(num) * num^2 / (na * nb)
ScoreLess(s, t) ==
    Sign(s.num) * s.num * s.num * t.na * t.nb
        < Sign(t.num) * t.num * t.num * s.na * s.nb

ScoreEq(s, t) == ~ScoreLess(s, t) /\ ~ScoreLess(t, s)

----------------------------------------------------------------------------
(* search *)

Score(r) == Get(r, "score")

\* ScoreEntry without the metadata spread: { score, index: i }
ScoreEntryNoMeta(vecs, metas, query, i) ==
    {<<"score", cosineSimilarity(query, vecs[i])>>, <<"index", i - 1>>}

\* ScoreEntry with the metadata spread first: { ...this.metadata[i], score,
\* index: i }
ScoreEntryMetaFirst(vecs, metas, query, i) ==
    Spread(IF i <= Len(metas) THEN metas[i] ELSE {},
           {<<"score", cosineSimilarity(query, vecs[i])>>, <<"index", i - 1>>})

\* one element of `scores`: { score, index: i, ...this.metadata[i] }
\* (sequences are 1-based, the index field is the 0-based position)
ScoreEntry(vecs, metas, query, i) ==
    Spread({<<"score", cosineSimilarity(query, vecs[i])>>, <<"index", i - 1>>},
           IF i <= Len(metas) THEN metas[i] ELSE {})

\* InsertDesc of a sort that is not stable: r goes before the elements of
\* equal score
InsertDescBeforeEqual(s, r) ==
    LET n == Cardinality({j \in 1..Len(s) : ScoreLess(Score(r), Score(s[j]))})
    IN  SubSeq(s, 1, n) \o <<r>> \o SubSeq(s, n + 1, Len(s))

\* InsertDesc with the comparator's operands swapped (a.score - b.score)
InsertAsc(s, r) ==
    LET n == Cardinality({j \in 1..Len(s) : ~ScoreLess(Score(r), Score(s[j]))})
    IN  SubSeq(s, 1, n) \o <<r>> \o SubSeq(s, n + 1, Len(s))

\* where a stable descending sort puts r among the already sorted s:
\* after every element whose score is not smaller
InsertDesc(s, r) ==
    LET n == Cardinality({j \in 1..Len(s) : ~ScoreLess(Score(s[j]), Score(r))})
    IN  SubSeq(s, 1, n) \o <<r>> \o SubSeq(s, n + 1, Len(s))

\* SortDesc with the sort left out
SortNone(s) == s

\* scores.sort((a, b) => b.score - a.score); Array.prototype.sort is stable
RECURSIVE SortDesc(_)
SortDesc(s) ==
    IF s = <<>> THEN <<>>
    ELSE InsertDesc(SortDesc(SubSeq(s, 1, Len(s) - 1)), s[Len(s)])

\* Slice with an inclusive end: scores.slice(0, k + 1)
SliceOneMore(s, k) == SubSeq(s, 1, Min(k + 1, Len(s)))

\* scores.slice(0, k), k >= 0
Slice(s, k) == SubSeq(s, 1, Min(k, Len(s)))

\* the value search returns when the dimension check passes
SearchIn(vecs, metas, queryVector, k) ==
    LET query == Float32Array(queryVector)
        scores == [i \in 1..Len(vecs) |-> ScoreEntry(vecs, metas, query, i)]
    IN  Slice(SortDesc(scores), k)

----------------------------------------------------------------------------
(* State *)

Index == [dimensions |-> dimensions, vectors |-> vectors, metadata |-> metadata]

Idle == [kind |-> "none"]

\* no page script is running: the class is used on its own
NoPage ==
    /\ startup = [pc |-> "none"]
    /\ currentQuizIndex = 0
    /\ quizScore = 0
    /\ quizAttempts = 0
    /\ dom = [quiz |-> "none"]

\* new VectorIndex(d), before any call; no database exists yet
Init ==
    /\ NoPage
    /\ dimensions \in Dims
    /\ vectors = <<>>
    /\ metadata = <<>>
    /\ dbVersion = 0
    /\ hasStore = FALSE
    /\ store = {}
    /\ pending = Idle
    /\ saved = {}
    /\ last = [op |-> "new", outcome |-> "ok"]

----------------------------------------------------------------------------
(* The synchronous methods *)

\* new VectorIndex(d) assigned over the previous instance.  The model follows
\* one instance, so a new one is made only when no call is in flight.
Construct(d) ==
    /\ pending.kind = "none"
    /\ dimensions' = d
    /\ vectors' = <<>>
    /\ metadata' = <<>>
    /\ last' = [op |-> "new", outcome |-> "ok"]
    /\ UNCHANGED <<db_vars, pending, saved>>

\* A save in flight holds this.metadata itself (data.metadata is the same
\* array), so a push onto it shows in the data still to be written.
PushShared(m) ==
    IF pending.kind = "save" /\ pending.metaShared
    THEN [pending EXCEPT !.data.metadata = Append(@, m)]
    ELSE pending

\* a new array assigned to this.metadata is no longer the one a save holds
Unshare ==
    IF pending.kind = "save"
    THEN [pending EXCEPT !.metaShared = FALSE]
    ELSE pending

\* add that stores the caller's array itself: this.vectors.push(vector)
AddKeepsArray(v, m) ==
    IF Len(v) # dimensions
    THEN /\ last' = [op |-> "add", outcome |-> "DimensionMismatch", pre |-> Index,
                     expected |-> dimensions, got |-> Len(v)]
         /\ UNCHANGED <<index_vars, db_vars, pending, saved>>
    ELSE /\ vectors' = Append(vectors, Float32Array(v))
         /\ metadata' = Append(metadata, m)
         /\ pending' = PushShared(m)
         /\ last' = [op |-> "add", outcome |-> "ok", pre |-> Index,
                     expected |-> dimensions, got |-> Len(v), meta |-> m,
                     vector |-> v, copied |-> FALSE]
         /\ UNCHANGED <<dimensions, db_vars, saved>>

\* add that puts the new entry in front of the others
AddAtFront(v, m) ==
    IF Len(v) # dimensions
    THEN /\ last' = [op |-> "add", outcome |-> "DimensionMismatch", pre |-> Index,
                     expected |-> dimensions, got |-> Len(v)]
         /\ UNCHANGED <<index_vars, db_vars, pending, saved>>
    ELSE /\ Len(vectors) < MaxSize
         /\ vectors' = <<Float32Array(v)>> \o vectors
         /\ metadata' = <<m>> \o metadata
         /\ pending' = PushShared(m)
         /\ last' = [op |-> "add", outcome |-> "ok", pre |-> Index,
                     expected |-> dimensions, got |-> Len(v), meta |-> m,
                     vector |-> v, copied |-> TRUE]
         /\ UNCHANGED <<dimensions, db_vars, saved>>

\* add with the dimension check left out
AddUnchecked(v, m) ==
    /\ Len(vectors) < MaxSize
    /\ vectors' = Append(vectors, Float32Array(v))
    /\ metadata' = Append(metadata, m)
    /\ pending' = PushShared(m)
    /\ last' = [op |-> "add", outcome |-> "ok", pre |-> Index,
                expected |-> dimensions, got |-> Len(v), meta |-> m,
                     vector |-> v, copied |-> TRUE]
    /\ UNCHANGED <<dimensions, db_vars, saved>>

\* add with the metadata pushed before the dimension check
AddPushFirst(v, m) ==
    /\ Len(vectors) < MaxSize
    /\ metadata' = Append(metadata, m)
    /\ pending' = PushShared(m)
    /\ IF Len(v) # dimensions
       THEN /\ last' = [op |-> "add", outcome |-> "DimensionMismatch", pre |-> Index,
                        expected |-> dimensions, got |-> Len(v)]
            /\ UNCHANGED vectors
       ELSE /\ vectors' = Append(vectors, Float32Array(v))
            /\ last' = [op |-> "add", outcome |-> "ok", pre |-> Index,
                        expected |-> dimensions, got |-> Len(v), meta |-> m,
                     vector |-> v, copied |-> TRUE]
    /\ UNCHANGED <<dimensions, db_vars, saved>>

add(v, m) ==
    IF Len(v) # dimensions
    THEN /\ last' = [op |-> "add", outcome |-> "DimensionMismatch", pre |-> Index,
                     expected |-> dimensions, got |-> Len(v)]
         /\ UNCHANGED <<index_vars, db_vars, pending, saved>>
    ELSE /\ vectors' = Append(vectors, Float32Array(v))
         /\ metadata' = Append(metadata, m)
         /\ pending' = PushShared(m)
         /\ last' = [op |-> "add", outcome |-> "ok", pre |-> Index,
                     expected |-> dimensions, got |-> Len(v), meta |-> m,
                     vector |-> v, copied |-> TRUE]
         /\ UNCHANGED <<dimensions, db_vars, saved>>

\* The caller of add assigns x to element i of the array it passed.  The
\* entry add stored is a new Float32Array, another object than that array
\* (`copied`), so the assignment does not reach it.  `last.vector` is the
\* caller's array as it now stands.
MutateCallerArray(i, x) ==
    /\ last.op \in {"add", "mutate"} /\ last.outcome = "ok"
    /\ i \in 1..Len(last.vector)
    /\ last.vector[i] # x
    /\ LET array == [last.vector EXCEPT ![i] = x] IN
       /\ vectors' = IF last.copied THEN vectors
                     ELSE [vectors EXCEPT ![Len(vectors)] = Float32Array(array)]
       /\ last' = [op |-> "mutate", outcome |-> "ok", pre |-> Index,
                   vector |-> array, copied |-> last.copied]
    /\ UNCHANGED <<dimensions, metadata, db_vars, pending, saved>>

\* search with the dimension check skipped while the index is empty
SearchUncheckedWhenEmpty(queryVector, k) ==
    /\ IF vectors # <<>> /\ Len(queryVector) # dimensions
       THEN last' = [op |-> "search", outcome |-> "DimensionMismatch", pre |-> Index,
                     expected |-> dimensions, got |-> Len(queryVector), k |-> k]
       ELSE last' = [op |-> "search", outcome |-> "ok", pre |-> Index,
                     expected |-> dimensions, got |-> Len(queryVector),
                     query |-> Float32Array(queryVector), k |-> k,
                     results |-> SearchIn(vectors, metadata, queryVector, k)]
    /\ UNCHANGED <<index_vars, db_vars, pending, saved>>

search(queryVector, k) ==
    /\ IF Len(queryVector) # dimensions
       THEN last' = [op |-> "search", outcome |-> "DimensionMismatch", pre |-> Index,
                     expected |-> dimensions, got |-> Len(queryVector), k |-> k]
       ELSE last' = [op |-> "search", outcome |-> "ok", pre |-> Index,
                     expected |-> dimensions, got |-> Len(queryVector),
                     query |-> Float32Array(queryVector), k |-> k,
                     results |-> SearchIn(vectors, metadata, queryVector, k)]
    /\ UNCHANGED <<index_vars, db_vars, pending, saved>>

size ==
    /\ last' = [op |-> "size", outcome |-> "ok", pre |-> Index, result |-> Len(vectors)]
    /\ UNCHANGED <<index_vars, db_vars, pending, saved>>

\* clear that resets the metadata only
ClearMetadataOnly ==
    /\ metadata' = <<>>
    /\ pending' = Unshare
    /\ last' = [op |-> "clear", outcome |-> "ok", pre |-> Index]
    /\ UNCHANGED <<dimensions, vectors, db_vars, saved>>

\* clear that resets the vectors only
ClearVectorsOnly ==
    /\ vectors' = <<>>
    /\ last' = [op |-> "clear", outcome |-> "ok", pre |-> Index]
    /\ UNCHANGED <<dimensions, metadata, db_vars, pending, saved>>

clear ==
    /\ vectors' = <<>>
    /\ metadata' = <<>>
    /\ pending' = Unshare
    /\ last' = [op |-> "clear", outcome |-> "ok", pre |-> Index]
    /\ UNCHANGED <<dimensions, db_vars, saved>>

----------------------------------------------------------------------------
(* The in-memory index on its own: every vector over Vals, no persistence *)

\* the callers of these specifications add while the index holds fewer
\* than MaxSize entries
Room(v) == Len(v) = dimensions => Len(vectors) < MaxSize

\* the caller numbers the entries as it adds them: { id: 1 }, { id: 2 }, ...
NextMeta == {<<"id", Len(vectors) + 1>>}

\* caller-supplied arrays: every array over Floats of a length in Lens
InputArrays == UNION {[1..n -> Floats] : n \in Lens}

NextIndex ==
    \/ (\E d \in Dims : Construct(d)) /\ UNCHANGED page_vars
    \/ (\E v \in InputArrays : Room(v) /\ add(v, NextMeta)) /\ UNCHANGED page_vars
    \/ (\E q \in InputArrays, k \in 0..MaxK : search(q, k)) /\ UNCHANGED page_vars
    \/ size /\ UNCHANGED page_vars
    \/ clear /\ UNCHANGED page_vars

SpecIndex == Init /\ [][NextIndex]_vars

----------------------------------------------------------------------------
(* The IndexedDB object store 'indices', keyPath 'name' *)

\* store.get(name): the set holding the record, or {} for undefined
StoreGet(name) == {r \in store : Get(r, "name") = name}

\* StorePut that keeps the record already stored under the name
StorePutKeepsOld(rec) == store \cup {rec}

\* store.put(record): upsert by the record's name
StorePut(rec) == {r \in store : Get(r, "name") # Get(rec, "name")} \cup {rec}

\* StoreDelete that removes nothing
StoreDeleteNothing(name) == store

\* store.delete(name)
StoreDelete(name) == {r \in store : Get(r, "name") # name}

\* a load or delete call in flight, waiting for indexedDB.open
Called(kind, name) ==
    [kind |-> kind, name |-> name, pc |-> "open", called |-> Index]

\* a save call in flight: `data` holds copies of the vectors as plain
\* arrays, and this.metadata itself
\* the call save(name) makes on an index whose fields are those of x
SaveCalledOn(name, x) ==
    [kind |-> "save", name |-> name, pc |-> "open", called |-> x,
     data |-> [dimensions |-> x.dimensions,
               vectors |-> [i \in 1..Len(x.vectors) |-> ArrayFrom(x.vectors[i])],
               metadata |-> x.metadata],
     metaShared |-> TRUE, rec |-> {}]

SaveCalled(name) == SaveCalledOn(name, Index)

Waiting(outcome) == [op |-> pending.kind, name |-> pending.name, outcome |-> outcome]

\* the promise settles (or, outcome "never_settles", is abandoned by a
\* handler that threw): the call is over.  `stored` keeps the records the
\* store held when the last event of the call arrived.
Settle(outcome, cause) ==
    /\ pending' = Idle
    /\ last' = [op |-> pending.kind, name |-> pending.name, outcome |-> outcome,
                cause |-> cause, pre |-> Index, called |-> pending.called,
                stored |-> store]

----------------------------------------------------------------------------
(* save *)

\* lines 88-95: data is built and the database open is requested
SaveCall(name) ==
    /\ pending.kind = "none"
    /\ pending' = SaveCalled(name)
    /\ last' = [op |-> "save", name |-> name, outcome |-> "pending"]
    /\ UNCHANGED <<index_vars, db_vars, saved>>

\* request.onerror: the open failed.  It fires in place of onsuccess; an
\* open whose upgrade was committed does not fail afterwards, and one whose
\* upgrade aborted leaves the database as it was.
SaveOpenError ==
    /\ pending.kind = "save" /\ pending.pc = "open"
    /\ Settle("rejected", "open")
    /\ UNCHANGED <<index_vars, db_vars, saved>>

\* request.onupgradeneeded: fires when the database is older than version 1
SaveUpgradeNeeded ==
    /\ pending.kind = "save" /\ pending.pc = "open"
    /\ dbVersion = 0
    /\ dbVersion' = 1
    /\ hasStore' = TRUE
    /\ pending' = [pending EXCEPT !.pc = "upgraded"]
    /\ last' = Waiting("pending")
    /\ UNCHANGED <<index_vars, store, saved>>

\* the record handed to store.put: { name, ...data }, cloned by put
PutRecord(name, data) ==
    Spread({<<"name", name>>},
           {<<"dimensions", data.dimensions>>, <<"vectors", data.vectors>>,
            <<"metadata", data.metadata>>})

\* request.onsuccess: db.transaction throws NotFoundError when the object
\* store does not exist; nothing catches it and the promise stays pending
SaveOpenSuccess ==
    /\ pending.kind = "save" /\ pending.pc \in {"open", "upgraded"}
    /\ dbVersion = 1
    /\ IF ~hasStore
       THEN Settle("never_settles", "NotFoundError")
       ELSE /\ pending' = [pending EXCEPT !.pc = "request",
                              !.rec = PutRecord(pending.name, pending.data)]
            /\ last' = Waiting("pending")
    /\ UNCHANGED <<index_vars, db_vars, saved>>

\* putRequest.onsuccess
SavePutSuccess ==
    /\ pending.kind = "save" /\ pending.pc = "request"
    /\ store' = StorePut(pending.rec)
    /\ saved' = Spread(saved, {<<pending.name, pending.called>>})
    /\ Settle("resolved", "none")
    /\ UNCHANGED <<index_vars, dbVersion, hasStore>>

\* putRequest.onerror
SavePutError ==
    /\ pending.kind = "save" /\ pending.pc = "request"
    /\ Settle("rejected", "put")
    /\ UNCHANGED <<index_vars, db_vars, saved>>

----------------------------------------------------------------------------
(* load *)

LoadCall(name) ==
    /\ pending.kind = "none"
    /\ pending' = Called("load", name)
    /\ last' = [op |-> "load", name |-> name, outcome |-> "pending"]
    /\ UNCHANGED <<index_vars, db_vars, saved>>

\* request.onerror
LoadOpenError ==
    /\ pending.kind = "load" /\ pending.pc = "open"
    /\ Settle("false", "open")
    /\ UNCHANGED <<index_vars, db_vars, saved>>

\* request.onupgradeneeded
LoadUpgradeNeeded ==
    /\ pending.kind = "load" /\ pending.pc = "open"
    /\ dbVersion = 0
    /\ dbVersion' = 1
    /\ hasStore' = TRUE
    /\ pending' = [pending EXCEPT !.pc = "upgraded"]
    /\ last' = Waiting("pending")
    /\ UNCHANGED <<index_vars, store, saved>>

\* LoadOpenSuccess without the objectStoreNames.contains check: the
\* transaction on a missing store throws and the promise stays pending
LoadOpenSuccessNoContains ==
    /\ pending.kind = "load" /\ pending.pc \in {"open", "upgraded"}
    /\ dbVersion = 1
    /\ IF ~hasStore
       THEN Settle("never_settles", "NotFoundError")
       ELSE /\ pending' = [pending EXCEPT !.pc = "request"]
            /\ last' = Waiting("pending")
    /\ UNCHANGED <<index_vars, db_vars, saved>>

\* request.onsuccess
LoadOpenSuccess ==
    /\ pending.kind = "load" /\ pending.pc \in {"open", "upgraded"}
    /\ dbVersion = 1
    /\ IF ~hasStore
       THEN Settle("false", "noStore")
       ELSE /\ pending' = [pending EXCEPT !.pc = "request"]
            /\ last' = Waiting("pending")
    /\ UNCHANGED <<index_vars, db_vars, saved>>

\* LoadGetSuccess that appends the record's entries to the present ones
LoadGetSuccessAppends ==
    /\ pending.kind = "load" /\ pending.pc = "request"
    /\ LET got == StoreGet(pending.name) IN
       IF got = {}
       THEN /\ Settle("false", "absent")
            /\ UNCHANGED index_vars
       ELSE LET data == CHOOSE r \in got : TRUE IN
            /\ dimensions' = Get(data, "dimensions")
            /\ vectors' = vectors \o [i \in 1..Len(Get(data, "vectors")) |->
                                         Float32Array(Get(data, "vectors")[i])]
            /\ metadata' = metadata \o Get(data, "metadata")
            /\ Settle("true", "none")
    /\ UNCHANGED <<db_vars, saved>>

\* LoadGetSuccess without the assignment to this.dimensions
LoadGetSuccessKeepsDims ==
    /\ pending.kind = "load" /\ pending.pc = "request"
    /\ LET got == StoreGet(pending.name) IN
       IF got = {}
       THEN /\ Settle("false", "absent")
            /\ UNCHANGED <<vectors, metadata>>
       ELSE LET data == CHOOSE r \in got : TRUE IN
            /\ vectors' = [i \in 1..Len(Get(data, "vectors")) |->
                               Float32Array(Get(data, "vectors")[i])]
            /\ metadata' = Get(data, "metadata")
            /\ Settle("true", "none")
    /\ UNCHANGED <<dimensions, db_vars, saved>>

\* LoadGetSuccess in two steps, as if the conversion of the vectors were
\* awaited: the first assigns this.dimensions, the second the rest
LoadGetSuccessInTwoSteps ==
    /\ pending.kind = "load" /\ pending.pc \in {"request", "assigned"}
    /\ LET got == StoreGet(pending.name) IN
       IF got = {}
       THEN /\ Settle("false", "absent")
            /\ UNCHANGED index_vars
       ELSE LET data == CHOOSE r \in got : TRUE IN
            IF pending.pc = "request"
            THEN /\ dimensions' = Get(data, "dimensions")
                 /\ pending' = [pending EXCEPT !.pc = "assigned"]
                 /\ last' = Waiting("pending")
                 /\ UNCHANGED <<vectors, metadata>>
            ELSE /\ vectors' = [i \in 1..Len(Get(data, "vectors")) |->
                                    Float32Array(Get(data, "vectors")[i])]
                 /\ metadata' = Get(data, "metadata")
                 /\ Settle("true", "none")
                 /\ UNCHANGED dimensions
    /\ UNCHANGED <<db_vars, saved>>

\* getRequest.onsuccess.  The three fields are assigned in turn; reading
\* data.vectors.map on a record without vectors throws a TypeError after
\* dimensions has been assigned, and the promise stays pending.
LoadGetSuccess ==
    /\ pending.kind = "load" /\ pending.pc = "request"
    /\ LET got == StoreGet(pending.name) IN
       IF got = {}
       THEN /\ Settle("false", "absent")
            /\ UNCHANGED index_vars
       ELSE LET data == CHOOSE r \in got : TRUE IN
            /\ dimensions' = Get(data, "dimensions")
            /\ IF Has(data, "vectors")
               THEN /\ vectors' = [i \in 1..Len(Get(data, "vectors")) |->
                                       Float32Array(Get(data, "vectors")[i])]
                    /\ metadata' = Get(data, "metadata")
                    /\ Settle("true", "none")
               ELSE /\ UNCHANGED <<vectors, metadata>>
                    /\ Settle("never_settles", "TypeError")
    /\ UNCHANGED <<db_vars, saved>>

\* getRequest.onerror
LoadGetError ==
    /\ pending.kind = "load" /\ pending.pc = "request"
    /\ Settle("false", "get")
    /\ UNCHANGED <<index_vars, db_vars, saved>>

----------------------------------------------------------------------------
(* delete *)

DeleteCall(name) ==
    /\ pending.kind = "none"
    /\ pending' = Called("delete", name)
    /\ last' = [op |-> "delete", name |-> name, outcome |-> "pending"]
    /\ UNCHANGED <<index_vars, db_vars, saved>>

\* request.onerror
DeleteOpenError ==
    /\ pending.kind = "delete" /\ pending.pc = "open"
    /\ Settle("rejected", "open")
    /\ UNCHANGED <<index_vars, db_vars, saved>>

\* indexedDB.open creates a missing database at version 1; delete sets no
\* onupgradeneeded handler, so the new database gets no object store
DeleteOpenCreates ==
    /\ pending.kind = "delete" /\ pending.pc = "open"
    /\ dbVersion = 0
    /\ dbVersion' = 1
    /\ pending' = [pending EXCEPT !.pc = "upgraded"]
    /\ last' = Waiting("pending")
    /\ UNCHANGED <<index_vars, hasStore, store, saved>>

\* request.onsuccess
DeleteOpenSuccess ==
    /\ pending.kind = "delete" /\ pending.pc \in {"open", "upgraded"}
    /\ dbVersion = 1
    /\ IF ~hasStore
       THEN Settle("never_settles", "NotFoundError")
       ELSE /\ pending' = [pending EXCEPT !.pc = "request"]
            /\ last' = Waiting("pending")
    /\ UNCHANGED <<index_vars, db_vars, saved>>

\* deleteRequest.onsuccess
\* deleteRequest.onsuccess that also empties the in-memory index
DeleteSuccessClears ==
    /\ pending.kind = "delete" /\ pending.pc = "request"
    /\ store' = StoreDelete(pending.name)
    /\ saved' = {p \in saved : p[1] # pending.name}
    /\ vectors' = <<>>
    /\ metadata' = <<>>
    /\ Settle("resolved", "none")
    /\ UNCHANGED <<dimensions, dbVersion, hasStore>>

DeleteSuccess ==
    /\ pending.kind = "delete" /\ pending.pc = "request"
    /\ store' = StoreDelete(pending.name)
    /\ saved' = {p \in saved : p[1] # pending.name}
    /\ Settle("resolved", "none")
    /\ UNCHANGED <<index_vars, dbVersion, hasStore>>

\* deleteRequest.onerror
DeleteError ==
    /\ pending.kind = "delete" /\ pending.pc = "request"
    /\ Settle("rejected", "delete")
    /\ UNCHANGED <<index_vars, db_vars, saved>>

----------------------------------------------------------------------------
(* The whole class, used as documented: the caller awaits save, load and   *)
(* delete before its next call.  Entries and queries come from a few       *)
(* caller-supplied arrays, some with components that are not float32       *)
(* values.                                                                 *)

DefaultK == 5         \* search(queryVector, k = 5)

OnePlus == [f |-> 1, r |-> 1]      \* 1 + 2^-30

Entries ==
    { <<(<<OnePlus>>), {<<"id", 1>>}>>,
      <<(<<ToDouble(-1)>>), {<<"id", 2>>}>>,
      <<(<<ToDouble(0), OnePlus>>), {}>> }

Queries == { <<OnePlus>>, <<ToDouble(1), ToDouble(1)>> }

\* the values a caller assigns to an element of an array it has added
Assigned == {ToDouble(0), OnePlus}

\* the events of the call in flight
Step ==
    \/ SaveOpenError \/ SaveUpgradeNeeded \/ SaveOpenSuccess
    \/ SavePutSuccess \/ SavePutError
    \/ LoadOpenError \/ LoadUpgradeNeeded \/ LoadOpenSuccess
    \/ LoadGetSuccess \/ LoadGetError
    \/ DeleteOpenError \/ DeleteOpenCreates \/ DeleteOpenSuccess
    \/ DeleteSuccess \/ DeleteError

NoCall == pending.kind = "none"

Next ==
    \/ NoCall /\ (\E d \in Dims : Construct(d)) /\ UNCHANGED page_vars
    \/ NoCall /\ (\E e \in Entries : Room(e[1]) /\ add(e[1], e[2])) /\ UNCHANGED page_vars
    \/ NoCall /\ (\E q \in Queries : search(q, DefaultK)) /\ UNCHANGED page_vars
    \/ NoCall /\ size /\ UNCHANGED page_vars
    \/ NoCall /\ clear /\ UNCHANGED page_vars
    \/ NoCall /\ (\E i \in 1..2, x \in Assigned : MutateCallerArray(i, x))
              /\ UNCHANGED page_vars
    \/ (\E n \in Names : SaveCall(n)) /\ UNCHANGED page_vars
    \/ (\E n \in Names : LoadCall(n)) /\ UNCHANGED page_vars
    \/ (\E n \in Names : DeleteCall(n)) /\ UNCHANGED page_vars
    \/ SaveOpenError /\ UNCHANGED page_vars
    \/ SaveUpgradeNeeded /\ UNCHANGED page_vars
    \/ SaveOpenSuccess /\ UNCHANGED page_vars
    \/ SavePutSuccess /\ UNCHANGED page_vars
    \/ SavePutError /\ UNCHANGED page_vars
    \/ LoadOpenError /\ UNCHANGED page_vars
    \/ LoadUpgradeNeeded /\ UNCHANGED page_vars
    \/ LoadOpenSuccess /\ UNCHANGED page_vars
    \/ LoadGetSuccess /\ UNCHANGED page_vars
    \/ LoadGetError /\ UNCHANGED page_vars
    \/ DeleteOpenError /\ UNCHANGED page_vars
    \/ DeleteOpenCreates /\ UNCHANGED page_vars
    \/ DeleteOpenSuccess /\ UNCHANGED page_vars
    \/ DeleteSuccess /\ UNCHANGED page_vars
    \/ DeleteError /\ UNCHANGED page_vars

Spec == Init /\ [][Next]_vars

----------------------------------------------------------------------------
(* The class beside another writer of the same database: 'VectorIndexDB'   *)
(* belongs to the page's origin, and a record put under a name by other    *)
(* code need not have the shape save writes.  Here the store starts with   *)
(* one record that has a name and dimensions but no vectors.  search is    *)
(* left out: once a load has replaced dimensions alone, the stored vectors *)
(* can be shorter than a query and their scores are NaN.                   *)

InitForeign ==
    /\ NoPage
    /\ dimensions \in Dims
    /\ vectors = <<>>
    /\ metadata = <<>>
    /\ dbVersion = 1
    /\ hasStore = TRUE
    /\ \E n \in Names, d \in Dims : store = {{<<"name", n>>, <<"dimensions", d>>}}
    /\ pending = Idle
    /\ saved = {}
    /\ last = [op |-> "new", outcome |-> "ok"]

NextForeign ==
    \/ NoCall /\ (\E d \in Dims : Construct(d)) /\ UNCHANGED page_vars
    \/ NoCall /\ (\E e \in Entries : Room(e[1]) /\ add(e[1], e[2])) /\ UNCHANGED page_vars
    \/ NoCall /\ clear /\ UNCHANGED page_vars
    \/ (\E n \in Names : SaveCall(n)) /\ UNCHANGED page_vars
    \/ (\E n \in Names : LoadCall(n)) /\ UNCHANGED page_vars
    \/ (\E n \in Names : DeleteCall(n)) /\ UNCHANGED page_vars
    \/ SaveOpenError /\ UNCHANGED page_vars
    \/ SaveOpenSuccess /\ UNCHANGED page_vars
    \/ SavePutSuccess /\ UNCHANGED page_vars
    \/ SavePutError /\ UNCHANGED page_vars
    \/ LoadOpenError /\ UNCHANGED page_vars
    \/ LoadOpenSuccess /\ UNCHANGED page_vars
    \/ LoadGetSuccess /\ UNCHANGED page_vars
    \/ LoadGetError /\ UNCHANGED page_vars
    \/ DeleteOpenError /\ UNCHANGED page_vars
    \/ DeleteOpenSuccess /\ UNCHANGED page_vars
    \/ DeleteSuccess /\ UNCHANGED page_vars
    \/ DeleteError /\ UNCHANGED page_vars

SpecForeign == InitForeign /\ [][NextForeign]_vars

----------------------------------------------------------------------------
(* The in-memory index over vectors of different magnitudes: every stored  *)
(* vector and every query has the index's dimensions and components in     *)
(* WideVals.                                                               *)

WideVals == {-1, 0, 1, 2}

WideArrays == [1..dimensions -> {ToDouble(n) : n \in WideVals}]

NextWide ==
    \/ (\E v \in WideArrays : Room(v) /\ add(v, NextMeta)) /\ UNCHANGED page_vars
    \/ (\E q \in WideArrays : search(q, DefaultK)) /\ UNCHANGED page_vars

SpecWide == Init /\ [][NextWide]_vars

----------------------------------------------------------------------------
(* The in-memory index over entries whose metadata may itself have a field *)
(* named score or index.  A number in a score field is written as a score  *)
(* record, so that the sort compares it with the computed ones; the        *)
(* values chosen are no cosine and no position of the index.               *)

OwnFields ==
    { {},
      {<<"score", [num |-> -5, na |-> 1, nb |-> 1]>>},
      {<<"index", 7>>},
      {<<"score", [num |-> 5, na |-> 1, nb |-> 1]>>, <<"index", 7>>} }

UnitArrays == [1..dimensions -> {ToDouble(0), ToDouble(1)}]

NextMetaFields ==
    \/ (\E v \in UnitArrays, o \in OwnFields : Room(v) /\ add(v, Spread(NextMeta, o)))
           /\ UNCHANGED page_vars
    \/ (\E q \in UnitArrays : search(q, DefaultK)) /\ UNCHANGED page_vars

SpecMetaFields == Init /\ [][NextMetaFields]_vars

----------------------------------------------------------------------------

(* The page of the main application: init() and initializeVectorIndex().   *)
(* `startup` holds the position of init(), its local `loaded`, whether the *)
(* index came from the cache, the loop counter i and, as history, the      *)
(* number of add and save calls this startup has made.  The page can be    *)
(* loaded again whenever no storage call is in flight; the database        *)
(* outlives the page.                                                      *)

EmbeddingDims == 384      \* new VectorIndex(384)

NumQuizzes == 10          \* mlQuizzes.length

IndexName == "ml-quizzes-index"

\* embed(mlQuizzes[i]): a normalized vector, one per question
Embedding(i) == [j \in 1..EmbeddingDims |-> ToDouble(IF j = i + 1 THEN 1 ELSE 0)]

\* { id: i, text: quiz }; the text is named by its position in mlQuizzes
QuizMeta(i) == {<<"id", i>>, <<"text", i + 1>>}

\* lines 585-586: a new VectorIndex(384) calls load('ml-quizzes-index')
init ==
    /\ NoCall
    /\ startup.pc \in {"none", "model", "build", "ready", "failed"}
    /\ dimensions' = EmbeddingDims
    /\ vectors' = <<>>
    /\ metadata' = <<>>
    /\ pending' = [kind |-> "load", name |-> IndexName, pc |-> "open",
                   called |-> [dimensions |-> EmbeddingDims, vectors |-> <<>>,
                               metadata |-> <<>>]]
    /\ last' = [op |-> "load", name |-> IndexName, outcome |-> "pending"]
    /\ startup' = [pc |-> "load", loaded |-> FALSE, cached |-> FALSE, i |-> 0,
                   adds |-> 0, saves |-> 0]
    /\ UNCHANGED <<db_vars, saved, quiz_vars>>

\* lines 586-595: load has settled, init goes on to initializeModel()
InitAfterLoad ==
    /\ startup.pc = "load" /\ NoCall
    /\ last.op = "load" /\ last.outcome \in {"true", "false"}
    /\ startup' = [startup EXCEPT !.pc = "model",
                       !.loaded = (last.outcome = "true"),
                       !.cached = (last.outcome = "true" /\ Len(vectors) > 0)]
    /\ UNCHANGED <<index_vars, db_vars, pending, saved, last, quiz_vars>>

\* lines 491-496: the model did not load; init returns
InitModelFailed ==
    /\ startup.pc = "model"
    /\ startup' = [startup EXCEPT !.pc = "failed"]
    /\ UNCHANGED <<index_vars, db_vars, pending, saved, last, quiz_vars>>

\* InitModelReady that rebuilds the index whatever load returned
InitModelReadyAlwaysBuilds ==
    /\ startup.pc = "model"
    /\ Construct(EmbeddingDims)
    /\ startup' = [startup EXCEPT !.pc = "build"]
    /\ UNCHANGED quiz_vars

\* lines 595-602 and 511: the model is ready; the index is rebuilt from a
\* new VectorIndex(384) unless load returned true and the index has entries
InitModelReady ==
    /\ startup.pc = "model"
    /\ IF ~startup.loaded \/ Len(vectors) = 0
       THEN /\ Construct(EmbeddingDims)
            /\ startup' = [startup EXCEPT !.pc = "build"]
       ELSE /\ startup' = [startup EXCEPT !.pc = "ready"]
            /\ UNCHANGED <<index_vars, db_vars, pending, saved, last>>
    /\ UNCHANGED quiz_vars

\* lines 514-527: embed(quiz) has resolved and the entry is added.  After
\* the last quiz the loop ends and save('ml-quizzes-index') is called in
\* the same turn: the next await is the one on save.  An add that throws
\* is caught at line 533 and initializeVectorIndex returns false.
BuildAdd ==
    /\ startup.pc = "build" /\ startup.i < NumQuizzes
    /\ LET v == Embedding(startup.i)
           m == QuizMeta(startup.i)
           after == [dimensions |-> dimensions,
                     vectors |-> Append(vectors, Float32Array(v)),
                     metadata |-> Append(metadata, m)]
       IN  IF Len(v) # dimensions
           THEN /\ add(v, m)
                /\ startup' = [startup EXCEPT !.pc = "failed"]
           ELSE IF startup.i + 1 < NumQuizzes
           THEN /\ add(v, m)
                /\ startup' = [startup EXCEPT !.i = @ + 1, !.adds = @ + 1]
           ELSE /\ pending.kind = "none"
                /\ vectors' = after.vectors
                /\ metadata' = after.metadata
                /\ pending' = SaveCalledOn(IndexName, after)
                /\ last' = [op |-> "save", name |-> IndexName, outcome |-> "pending"]
                /\ startup' = [startup EXCEPT !.i = @ + 1, !.adds = @ + 1,
                                              !.pc = "save", !.saves = @ + 1]
                /\ UNCHANGED <<dimensions, db_vars, saved>>
    /\ UNCHANGED quiz_vars

\* lines 518, 533-536: embed(quiz) has thrown; initializeVectorIndex
\* returns false and init returns
BuildEmbedFailed ==
    /\ startup.pc = "build" /\ startup.i < NumQuizzes
    /\ startup' = [startup EXCEPT !.pc = "failed"]
    /\ UNCHANGED <<index_vars, db_vars, pending, saved, last, quiz_vars>>

\* lines 527-536 and 599-602: save has settled
BuildAfterSave ==
    /\ startup.pc = "save" /\ NoCall
    /\ last.op = "save" /\ last.outcome \in {"resolved", "rejected"}
    /\ startup' = [startup EXCEPT
                       !.pc = IF last.outcome = "resolved" THEN "ready" ELSE "failed"]
    /\ UNCHANGED <<index_vars, db_vars, pending, saved, last, quiz_vars>>

NextApp ==
    \/ init
    \/ InitAfterLoad
    \/ InitModelFailed
    \/ InitModelReady
    \/ BuildAdd
    \/ BuildEmbedFailed
    \/ BuildAfterSave
    \/ LoadOpenError /\ UNCHANGED page_vars
    \/ LoadUpgradeNeeded /\ UNCHANGED page_vars
    \/ LoadOpenSuccess /\ UNCHANGED page_vars
    \/ LoadGetSuccess /\ UNCHANGED page_vars
    \/ LoadGetError /\ UNCHANGED page_vars
    \/ SaveOpenError /\ UNCHANGED page_vars
    \/ SaveUpgradeNeeded /\ UNCHANGED page_vars
    \/ SaveOpenSuccess /\ UNCHANGED page_vars
    \/ SavePutSuccess /\ UNCHANGED page_vars
    \/ SavePutError /\ UNCHANGED page_vars

SpecApp == Init /\ [][NextApp]_vars

----------------------------------------------------------------------------
(* The class used without awaiting: add, search, size and clear are called *)
(* while a save or load is in flight.  One name is used, and the caller  *)
(* adds while the index holds fewer than MaxSize vectors and metadata.    *)

NextInterleaved ==
    \/ NoCall /\ (\E d \in Dims : Construct(d)) /\ UNCHANGED page_vars
    \/ (\E e \in Entries : Room(e[1]) /\ Len(metadata) < MaxSize /\ add(e[1], e[2]))
           /\ UNCHANGED page_vars
    \/ (\E q \in Queries : search(q, DefaultK)) /\ UNCHANGED page_vars
    \/ size /\ UNCHANGED page_vars
    \/ clear /\ UNCHANGED page_vars
    \/ SaveCall("a") /\ UNCHANGED page_vars
    \/ LoadCall("a") /\ UNCHANGED page_vars
    \/ SaveOpenError /\ UNCHANGED page_vars
    \/ SaveUpgradeNeeded /\ UNCHANGED page_vars
    \/ SaveOpenSuccess /\ UNCHANGED page_vars
    \/ SavePutSuccess /\ UNCHANGED page_vars
    \/ SavePutError /\ UNCHANGED page_vars
    \/ LoadOpenError /\ UNCHANGED page_vars
    \/ LoadUpgradeNeeded /\ UNCHANGED page_vars
    \/ LoadOpenSuccess /\ UNCHANGED page_vars
    \/ LoadGetSuccess /\ UNCHANGED page_vars
    \/ LoadGetError /\ UNCHANGED page_vars

SpecInterleaved == Init /\ [][NextInterleaved]_vars

----------------------------------------------------------------------------
(* The class with a caller that awaits save but not load: add, search,     *)
(* size and clear run between the handlers of a load in flight.  One name  *)
(* is used.                                                                *)

NoSave == pending.kind # "save"

NextLoadInterleaved ==
    \/ NoCall /\ (\E d \in Dims : Construct(d)) /\ UNCHANGED page_vars
    \/ NoSave /\ (\E e \in Entries : Room(e[1]) /\ add(e[1], e[2])) /\ UNCHANGED page_vars
    \/ NoSave /\ (\E q \in Queries : search(q, DefaultK)) /\ UNCHANGED page_vars
    \/ NoSave /\ size /\ UNCHANGED page_vars
    \/ NoSave /\ clear /\ UNCHANGED page_vars
    \/ SaveCall("a") /\ UNCHANGED page_vars
    \/ LoadCall("a") /\ UNCHANGED page_vars
    \/ SaveOpenError /\ UNCHANGED page_vars
    \/ SaveUpgradeNeeded /\ UNCHANGED page_vars
    \/ SaveOpenSuccess /\ UNCHANGED page_vars
    \/ SavePutSuccess /\ UNCHANGED page_vars
    \/ SavePutError /\ UNCHANGED page_vars
    \/ LoadOpenError /\ UNCHANGED page_vars
    \/ LoadUpgradeNeeded /\ UNCHANGED page_vars
    \/ LoadOpenSuccess /\ UNCHANGED page_vars
    \/ LoadGetSuccess /\ UNCHANGED page_vars
    \/ LoadGetError /\ UNCHANGED page_vars

SpecLoadInterleaved == Init /\ [][NextLoadInterleaved]_vars

----------------------------------------------------------------------------

(* The quiz of the main application (src/vectorIndex.js).  The page state  *)
(* is currentQuizIndex, quizScore, quizAttempts and the parts of the DOM   *)
(* the handlers read or write; quizScore is counted in tenths of a point   *)
(* and a similarity in hundredths.  A button is clicked only while it is   *)
(* displayed and enabled.                                                  *)

QuizLength == 5           \* quizData.length

Similarities == {-100, 54, 55, 70, 85, 100}

class_vars == <<dimensions, vectors, metadata, db_vars, pending, saved, startup>>

\* the points of getScoreLabel(similarity), in tenths
getScoreLabel(similarity) ==
    IF similarity >= 85 THEN 10
    ELSE IF similarity >= 70 THEN 8
    ELSE IF similarity >= 55 THEN 5
    ELSE 0

Page == [i |-> currentQuizIndex, score |-> quizScore, attempts |-> quizAttempts,
         dom |-> dom]

SetPage(q) ==
    /\ currentQuizIndex' = q.i
    /\ quizScore' = q.score
    /\ quizAttempts' = q.attempts
    /\ dom' = q.dom

\* the DOM after displayQuizQuestion()
displayQuizQuestion(d) ==
    [d EXCEPT !.answerDisabled = FALSE, !.submitDisabled = FALSE,
              !.hintDisabled = FALSE, !.nextShown = FALSE, !.feedback = ""]

\* init(), lines 608-613: the quiz is enabled and its first question shown.
\* The button has no onclick handler yet.
StartQuiz ==
    /\ dom.quiz = "none"
    /\ dom' = displayQuizQuestion(
                  [quiz |-> "on", answerDisabled |-> FALSE, submitDisabled |-> FALSE,
                   hintDisabled |-> FALSE, nextShown |-> FALSE,
                   nextText |-> "Next Question", onclick |-> "null",
                   controlsShown |-> TRUE, feedback |-> "", evaluating |-> FALSE])
    /\ last' = [op |-> "startQuiz", outcome |-> "ok"]
    /\ UNCHANGED <<class_vars, currentQuizIndex, quizScore, quizAttempts>>

\* a click on the submit button: evaluateAnswer() up to its await
evaluateAnswer(userAnswer) ==
    /\ dom.quiz = "on" /\ dom.controlsShown /\ ~dom.submitDisabled
    /\ IF userAnswer = ""
       THEN dom' = [dom EXCEPT !.feedback = "enter"]
       ELSE dom' = [dom EXCEPT !.submitDisabled = TRUE, !.answerDisabled = TRUE,
                               !.hintDisabled = TRUE, !.evaluating = TRUE]
    /\ last' = [op |-> "submit", outcome |-> "ok"]
    /\ UNCHANGED <<class_vars, currentQuizIndex, quizScore, quizAttempts>>

\* evaluateAnswer() after embed has resolved
EvaluateResolved(similarity) ==
    /\ dom.quiz = "on" /\ dom.evaluating
    /\ quizAttempts' = quizAttempts + 1
    /\ quizScore' = quizScore + getScoreLabel(similarity)
    /\ dom' = [dom EXCEPT !.feedback = "score", !.nextShown = TRUE,
                          !.evaluating = FALSE]
    /\ last' = [op |-> "evaluate", outcome |-> "ok",
                points |-> getScoreLabel(similarity),
                attempts |-> quizAttempts, score |-> quizScore]
    /\ UNCHANGED <<class_vars, currentQuizIndex>>

\* evaluateAnswer() after embed has rejected: the catch block
EvaluateRejected ==
    /\ dom.quiz = "on" /\ dom.evaluating
    /\ dom' = [dom EXCEPT !.feedback = "error", !.submitDisabled = FALSE,
                          !.answerDisabled = FALSE, !.evaluating = FALSE]
    /\ last' = [op |-> "evaluate", outcome |-> "error"]
    /\ UNCHANGED <<class_vars, currentQuizIndex, quizScore, quizAttempts>>

\* a click on the hint button
showHint ==
    /\ dom.quiz = "on" /\ dom.controlsShown /\ ~dom.hintDisabled
    /\ dom' = [dom EXCEPT !.feedback = "hint", !.hintDisabled = TRUE]
    /\ last' = [op |-> "hint", outcome |-> "ok"]
    /\ UNCHANGED <<class_vars, currentQuizIndex, quizScore, quizAttempts>>

\* the page after nextQuestion()
nextQuestion(q) ==
    IF q.i + 1 >= QuizLength
    THEN [q EXCEPT !.i = q.i + 1,
                   !.dom = [q.dom EXCEPT !.controlsShown = FALSE,
                                         !.nextText = "Restart Quiz",
                                         !.onclick = "restartQuiz",
                                         !.feedback = "complete"]]
    ELSE [q EXCEPT !.i = q.i + 1, !.dom = displayQuizQuestion(q.dom)]

\* the page after restartQuiz()
restartQuiz(q) ==
    [i |-> 0, score |-> 0, attempts |-> 0,
     dom |-> displayQuizQuestion([q.dom EXCEPT !.controlsShown = TRUE,
                                               !.nextText = "Next Question",
                                               !.onclick = "nextQuestion"])]

\* the button's event handler: the function its onclick holds when the
\* handler's turn comes
OnclickHandler(q) ==
    IF q.dom.onclick = "restartQuiz" THEN restartQuiz(q)
    ELSE IF q.dom.onclick = "nextQuestion" THEN nextQuestion(q)
    ELSE q

\* a click on the button labelled 'Next Question' or 'Restart Quiz'.  Its
\* listeners run in the order of their registration: nextQuestion, added
\* at line 570, then the onclick handler, which became a listener when
\* onclick was first assigned; a handler registered during this dispatch
\* does not run in it.
ClickNext ==
    /\ dom.quiz = "on" /\ dom.nextShown
    /\ LET first == nextQuestion(Page)
       IN  SetPage(IF dom.onclick = "null" THEN first ELSE OnclickHandler(first))
    /\ last' = [op |-> "clickNext", outcome |-> "ok", index |-> currentQuizIndex,
                text |-> dom.nextText]
    /\ UNCHANGED class_vars

NextQuiz ==
    \/ StartQuiz
    \/ \E userAnswer \in {"", "answer"} : evaluateAnswer(userAnswer)
    \/ \E similarity \in Similarities : EvaluateResolved(similarity)
    \/ EvaluateRejected
    \/ showHint
    \/ ClickNext

SpecQuiz == Init /\ [][NextQuiz]_vars

----------------------------------------------------------------------------

(* The semantic quiz of scripts/version1.js, on the same page variables.   *)
(* Its displayQuizQuestion, getScoreLabel, showHint and the parts of       *)
(* evaluateAnswer before the await (85-95) and in the catch block          *)
(* (127-132) are the text of the main application's, and init() ends with  *)
(* displayQuizQuestion() (239); those definitions are used again here.     *)
(* The feedback "score+retry" is the one that holds the Try Again button.  *)

QuizLengthV1 == 3         \* quizData.length

\* EvaluateResolvedV1 that renders the Try Again button whatever the points
EvaluateResolvedRetryAlways(similarity) ==
    /\ dom.quiz = "on" /\ dom.evaluating
    /\ quizAttempts' = quizAttempts + 1
    /\ quizScore' = quizScore + getScoreLabel(similarity)
    /\ dom' = [dom EXCEPT !.feedback = "score+retry", !.nextShown = TRUE,
                          !.evaluating = FALSE]
    /\ last' = [op |-> "evaluate", outcome |-> "ok",
                points |-> getScoreLabel(similarity),
                attempts |-> quizAttempts, score |-> quizScore]
    /\ UNCHANGED <<class_vars, currentQuizIndex>>

\* evaluateAnswer() after embed has resolved (97-125)
EvaluateResolvedV1(similarity) ==
    /\ dom.quiz = "on" /\ dom.evaluating
    /\ quizAttempts' = quizAttempts + 1
    /\ quizScore' = quizScore + getScoreLabel(similarity)
    /\ dom' = [dom EXCEPT !.feedback = IF getScoreLabel(similarity) = 0
                                       THEN "score+retry" ELSE "score",
                          !.nextShown = TRUE, !.evaluating = FALSE]
    /\ last' = [op |-> "evaluate", outcome |-> "ok",
                points |-> getScoreLabel(similarity),
                attempts |-> quizAttempts, score |-> quizScore]
    /\ UNCHANGED <<class_vars, currentQuizIndex>>

\* the page after nextQuestion()
nextQuestionV1(q) ==
    IF q.i + 1 >= QuizLengthV1
    THEN [q EXCEPT !.i = q.i + 1,
                   !.dom = [q.dom EXCEPT !.controlsShown = FALSE,
                                         !.nextText = "Restart Quiz",
                                         !.nextShown = TRUE,
                                         !.feedback = "complete"]]
    ELSE [q EXCEPT !.i = q.i + 1, !.dom = displayQuizQuestion(q.dom)]

\* the page after restartQuiz()
restartQuizV1(q) ==
    [i |-> 0, score |-> 0, attempts |-> 0,
     dom |-> displayQuizQuestion([q.dom EXCEPT !.controlsShown = TRUE,
                                               !.nextText = "Next Question",
                                               !.nextShown = FALSE])]

\* a click on the Try Again button inside the feedback: window.retryAnswer()
retryAnswer ==
    /\ dom.quiz = "on" /\ dom.feedback = "score+retry"
    /\ quizAttempts' = quizAttempts - 1
    /\ dom' = [dom EXCEPT !.answerDisabled = FALSE, !.submitDisabled = FALSE,
                          !.hintDisabled = FALSE, !.nextShown = FALSE,
                          !.feedback = "tryagain"]
    /\ last' = [op |-> "retry", outcome |-> "ok", failed |-> last]
    /\ UNCHANGED <<class_vars, currentQuizIndex, quizScore>>

\* the click listener of the next button (248-254)
ClickNextV1 ==
    /\ dom.quiz = "on" /\ dom.nextShown
    /\ SetPage(IF currentQuizIndex >= QuizLengthV1 - 1
                  /\ dom.nextText = "Restart Quiz"
               THEN restartQuizV1(Page)
               ELSE nextQuestionV1(Page))
    /\ last' = [op |-> "clickNext", outcome |-> "ok", index |-> currentQuizIndex,
                text |-> dom.nextText]
    /\ UNCHANGED class_vars

NextVersion1 ==
    \/ StartQuiz
    \/ \E userAnswer \in {"", "answer"} : evaluateAnswer(userAnswer)
    \/ \E similarity \in Similarities : EvaluateResolvedV1(similarity)
    \/ EvaluateRejected
    \/ showHint
    \/ retryAnswer
    \/ ClickNextV1

SpecVersion1 == Init /\ [][NextVersion1]_vars

----------------------------------------------------------------------------

(* Properties *)

Settled == last.outcome # "pending"

\* the fields of a search result that come from the entry's metadata
MetaFields(r) == {p \in r : p[1] \notin {"score", "index"}}

\* every array a caller can pass as a query of the right length
ValidQueries == [1..dimensions -> Floats]

\* C1: in every reachable state the index holds as many metadata records
\* as vectors.
C1_LengthsAgree == Len(vectors) = Len(metadata)

\* a load has just replaced an index by a saved one of MaxSize entries
C1_Witness ==
    /\ last.op = "load" /\ last.outcome = "true"
    /\ Len(last.pre.vectors) < MaxSize
    /\ Len(vectors) = MaxSize /\ Len(metadata) = MaxSize

\* C2: in every reachable state every stored vector has exactly
\* `dimensions` elements.
C2_VectorsHaveDimensions ==
    \A i \in 1..Len(vectors) : Len(vectors[i]) = dimensions

\* a load has just replaced the dimensions by a different value, together
\* with vectors of that length
C2_Witness ==
    /\ last.op = "load" /\ last.outcome = "true"
    /\ last.pre.dimensions # dimensions
    /\ last.pre.vectors # <<>>
    /\ vectors # <<>>

\* C3: add fails with the dimension mismatch error exactly when the array's
\* length differs from dimensions, and a failed add leaves dimensions,
\* vectors and metadata as they were.
C3_AddRejectsAndKeepsState ==
    last.op = "add" =>
        /\ last.expected = last.pre.dimensions
        /\ (last.outcome = "DimensionMismatch") <=> (last.got # last.expected)
        /\ last.outcome = "DimensionMismatch" => Index = last.pre

\* an add of a too short array has just failed on a non-empty index
C3_Witness ==
    /\ last.op = "add" /\ last.outcome = "DimensionMismatch"
    /\ last.got < dimensions
    /\ Len(vectors) = 1 /\ Len(metadata) = 1

\* C4: a successful add(v, m) makes the index one entry longer, the new
\* entry being (float32 v, m) at the end, and a search for any query with
\* k >= size() right after it returns an entry whose metadata fields are m.
C4_AddGrowsByOneAndIsFound ==
    (last.op = "add" /\ last.outcome = "ok") =>
        /\ Len(vectors) = Len(last.pre.vectors) + 1
        /\ Len(metadata) = Len(last.pre.metadata) + 1
        /\ SubSeq(vectors, 1, Len(vectors) - 1) = last.pre.vectors
        /\ metadata = Append(last.pre.metadata, last.meta)
        /\ \A q \in ValidQueries : \A k \in Len(vectors)..MaxK :
               LET res == SearchIn(vectors, metadata, q, k)
               IN  \E j \in 1..Len(res) :
                       /\ MetaFields(res[j]) = last.meta
                       /\ Get(res[j], "index") = Len(vectors) - 1

\* a second entry has just been added
C4_Witness ==
    /\ last.op = "add" /\ last.outcome = "ok"
    /\ Len(vectors) = 2
    /\ last.meta = {<<"id", 2>>}

\* C5: search returns at most k results, at most size() results, in order
\* of non-increasing score.
C5_SearchBoundedAndSorted ==
    (last.op = "search" /\ last.outcome = "ok") =>
        /\ Len(last.results) <= last.k
        /\ Len(last.results) <= Len(vectors)
        /\ \A i, j \in 1..Len(last.results) :
               i < j => ~ScoreLess(Score(last.results[i]), Score(last.results[j]))

\* a search has returned two results of different scores in the opposite
\* of their insertion order, and fewer than it was asked for
C5_Witness ==
    /\ last.op = "search" /\ last.outcome = "ok"
    /\ Len(last.results) = 2 /\ last.k > 2
    /\ Get(last.results[1], "index") = 1
    /\ ScoreLess(Score(last.results[2]), Score(last.results[1]))

\* the example of the specification: [1,0,0] {id:1} and [0,1,0] {id:2}
\* stored, search([1,0,0], 1)
ExampleResults ==
    SearchIn(<< <<1, 0, 0>>, <<0, 1, 0>> >>, << {<<"id", 1>>}, {<<"id", 2>>} >>,
             <<ToDouble(1), ToDouble(0), ToDouble(0)>>, 1)

\* C6: search returns the k highest-scoring entries: each result is a
\* distinct stored entry with its position, its cosine similarity to the
\* query and its metadata fields, and no entry left out scores higher than
\* a returned one; the example returns exactly {score: 1, index: 0, id: 1}.
C6_SearchReturnsTopK ==
    /\ ExampleResults = << {<<"score", [num |-> 1, na |-> 1, nb |-> 1]>>,
                            <<"index", 0>>, <<"id", 1>>} >>
    /\ (last.op = "search" /\ last.outcome = "ok") =>
         LET res == last.results
             pos(j) == Get(res[j], "index") + 1
             returned == {pos(j) : j \in 1..Len(res)}
         IN  /\ \A j \in 1..Len(res) :
                   /\ pos(j) \in 1..Len(vectors)
                   /\ Score(res[j]) = cosineSimilarity(last.query, vectors[pos(j)])
                   /\ MetaFields(res[j]) = metadata[pos(j)]
             /\ Cardinality(returned) = Len(res)
             /\ \A i \in (1..Len(vectors)) \ returned : \A j \in 1..Len(res) :
                   ~ScoreLess(Score(res[j]),
                              cosineSimilarity(last.query, vectors[i]))

\* search(q, 1) has returned the second of two entries, which scores
\* higher than the first
C6_Witness ==
    /\ last.op = "search" /\ last.outcome = "ok"
    /\ last.k = 1 /\ Len(vectors) = 2 /\ Len(last.results) = 1
    /\ Get(last.results[1], "index") = 1
    /\ ScoreLess(cosineSimilarity(last.query, vectors[1]), Score(last.results[1]))

\* C7: search returns exactly min(k, size()) results: none on an empty
\* index, none for k = 0.
C7_SearchReturnsMinKSize ==
    (last.op = "search" /\ last.outcome = "ok") =>
        /\ Len(last.results) = Min(last.k, Len(vectors))
        /\ vectors = <<>> => last.results = <<>>
        /\ last.k = 0 => last.results = <<>>

\* search(q, 0) on a full index has returned nothing
C7_Witness ==
    /\ last.op = "search" /\ last.outcome = "ok"
    /\ last.k = 0 /\ Len(vectors) = MaxSize
    /\ last.results = <<>>

\* C8: search fails with the dimension mismatch error exactly when the
\* query's length differs from dimensions, whatever the index holds and
\* whatever k, and leaves the index as it was.
C8_SearchRejectsMismatch ==
    last.op = "search" =>
        /\ last.expected = dimensions
        /\ (last.outcome = "DimensionMismatch") <=> (last.got # last.expected)
        /\ Index = last.pre

\* a search with a too long query and k = MaxK has just failed on an empty
\* index
C8_Witness ==
    /\ last.op = "search" /\ last.outcome = "DimensionMismatch"
    /\ last.got > dimensions /\ last.k = MaxK
    /\ vectors = <<>>

\* a load that ended without a storage fault
LoadUnfaulted ==
    last.op = "load" /\ Settled /\ last.cause \notin {"open", "get"}

\* C9: once save(name) has resolved (and name has not been deleted since),
\* a load(name) that meets no storage fault resolves true and leaves the
\* index with the dimensions, vectors and metadata of the saved index, in
\* the same order, whatever the loading index held.
C9_SaveLoadRoundTrip ==
    (LoadUnfaulted /\ Has(saved, last.name)) =>
        /\ last.outcome = "true"
        /\ Index = Get(saved, last.name)

\* a fresh index constructed with other dimensions has just loaded a saved
\* index of MaxSize entries
C9_Witness ==
    /\ LoadUnfaulted /\ Has(saved, last.name)
    /\ last.pre.vectors = <<>>
    /\ last.pre.dimensions # Get(saved, last.name).dimensions
    /\ Len(Get(saved, last.name).vectors) = MaxSize
    /\ Len(vectors) = MaxSize

\* C10: whenever a load is over without having resolved true, it has
\* resolved false and dimensions, vectors and metadata are what they were.
C10_LoadFailureResolvesFalse ==
    (last.op = "load" /\ Settled /\ last.outcome # "true") =>
        /\ last.outcome = "false"
        /\ Index = last.pre

\* the records among recs stored under name
Under(recs, name) == {r \in recs : Get(r, "name") = name}

\* C11: a load(name) that ends while the store 'indices' does not exist or
\* holds no record under name has resolved false, and dimensions, vectors
\* and metadata are what they were before the call ended.
C11_LoadOfMissingResolvesFalse ==
    (last.op = "load" /\ Settled /\ (~hasStore \/ StoreGet(last.name) = {})) =>
        /\ last.outcome = "false"
        /\ Index = last.pre

\* an index of MaxSize entries has just called load on a database that has
\* no object store
C11_Witness ==
    /\ last.op = "load" /\ Settled
    /\ last.cause = "noStore" /\ ~hasStore
    /\ Len(vectors) = MaxSize /\ Len(metadata) = MaxSize

\* C12: a save(name) that ends without a storage fault (no failed open or
\* put request) has found or created the store 'indices' and written its
\* record there, whatever call opened the database first.
C12_SaveProvisionsStore ==
    (last.op = "save" /\ Settled /\ last.cause \notin {"open", "put"}) =>
        /\ hasStore
        /\ last.outcome = "resolved"
        /\ StoreGet(last.name) # {}

\* the storage requests whose failure a handler of the class receives
RequestFaults == {"open", "put", "get", "delete"}

\* C13: a save, load or delete call that is over has settled: load has
\* resolved true or false, save and delete have resolved or rejected, and
\* after a storage fault load has resolved false and save and delete have
\* rejected.
C13_EveryCallSettles ==
    (last.op \in {"save", "load", "delete"} /\ Settled) =>
        /\ last.op = "load" => last.outcome \in {"true", "false"}
        /\ last.op # "load" => last.outcome \in {"resolved", "rejected"}
        /\ last.cause \in RequestFaults \cup {"NotFoundError"} =>
               last.outcome = IF last.op = "load" THEN "false" ELSE "rejected"

\* C14: a delete(name) that ends without a storage fault while no record
\* is stored under name has resolved, and the store holds the records it
\* held before.
C14_DeleteOfMissingResolves ==
    (/\ last.op = "delete" /\ Settled
     /\ last.cause \notin RequestFaults
     /\ Under(last.stored, last.name) = {}) =>
        /\ last.outcome = "resolved"
        /\ store = last.stored

\* the record that holds index state x under name: its dimensions, its
\* vectors as arrays of numbers, its metadata
RecordOf(name, x) ==
    {<<"name", name>>, <<"dimensions", x.dimensions>>,
     <<"vectors", [i \in 1..Len(x.vectors) |->
                      [j \in 1..Len(x.vectors[i]) |-> ToDouble(x.vectors[i][j])]]>>,
     <<"metadata", x.metadata>>}

\* C15: when save(name) has resolved, the store holds under name exactly
\* one record, the one of the index state save was called on, whatever was
\* stored under name before, and under every other name what it held
\* before.
C15_SaveUpserts ==
    (last.op = "save" /\ last.outcome = "resolved") =>
        /\ StoreGet(last.name) = {RecordOf(last.name, last.called)}
        /\ \A n \in Names \ {last.name} : StoreGet(n) = Under(last.stored, n)

\* a save has just replaced a record of MaxSize entries by one of fewer
\* entries and other dimensions, while the other name holds a record
C15_Witness ==
    /\ last.op = "save" /\ last.outcome = "resolved"
    /\ \E old \in Under(last.stored, last.name) :
           /\ Len(Get(old, "vectors")) = MaxSize
           /\ Get(old, "dimensions") # dimensions
    /\ Len(vectors) = 1
    /\ \E n \in Names \ {last.name} : StoreGet(n) # {}

\* C16: a load(name) that ends without a storage fault while a record is
\* stored under name has resolved true, and the index then holds the
\* record's dimensions, vectors and metadata and nothing else.
C16_LoadReplacesIndex ==
    (/\ last.op = "load" /\ Settled
     /\ last.cause \notin RequestFaults
     /\ StoreGet(last.name) # {}) =>
        /\ last.outcome = "true"
        /\ StoreGet(last.name) = {RecordOf(last.name, Index)}

\* an index of MaxSize entries has just loaded a record of one entry and
\* other dimensions
C16_Witness ==
    /\ last.op = "load" /\ last.outcome = "true"
    /\ Len(last.pre.vectors) = MaxSize
    /\ last.pre.dimensions # dimensions
    /\ Len(vectors) = 1 /\ Len(metadata) = 1

\* C17: when delete(name) has resolved, no record is stored under name,
\* every other name holds what it held before and dimensions, vectors and
\* metadata are what they were when delete was called; and a load(name)
\* that ends while name has not been saved again since resolves false.
C17_DeleteRemovesRecord ==
    /\ (last.op = "delete" /\ last.outcome = "resolved") =>
           /\ StoreGet(last.name) = {}
           /\ \A n \in Names \ {last.name} : StoreGet(n) = Under(last.stored, n)
           /\ Index = last.called
    /\ (last.op = "load" /\ Settled /\ ~Has(saved, last.name)) =>
           last.outcome = "false"

\* a delete has just removed the record under one name while the other
\* name holds a record and the index holds MaxSize entries
C17_Witness ==
    /\ last.op = "delete" /\ last.outcome = "resolved"
    /\ Under(last.stored, last.name) # {}
    /\ \E n \in Names \ {last.name} : StoreGet(n) # {}
    /\ Len(vectors) = MaxSize

\* C18: after clear() the index holds no vector and no metadata record and
\* has the dimensions it had, clear having returned normally; and size()
\* on an index without vectors returns 0.
C18_ClearEmptiesIndex ==
    /\ last.op = "clear" =>
           /\ last.outcome = "ok"
           /\ vectors = <<>> /\ metadata = <<>>
           /\ dimensions = last.pre.dimensions
    /\ (last.op = "size" /\ vectors = <<>>) => last.result = 0

\* an index of MaxSize entries has just been cleared
C18_Witness ==
    /\ last.op = "clear"
    /\ Len(last.pre.vectors) = MaxSize /\ Len(last.pre.metadata) = MaxSize
    /\ vectors = <<>>

\* C19: an add appends its vector (as float32 values) and its metadata
\* after the entries present and changes none of them; a failed add, a
\* search and a size change nothing.  So, the caller having numbered its
\* adds since the last clear or construction, position i holds the entry
\* numbered i, and each search result carries the number of the position
\* its index field names.
C19_InsertionOrderKept ==
    /\ (last.op = "add" /\ last.outcome = "ok") =>
           /\ vectors = Append(last.pre.vectors,
                               [i \in 1..Len(last.vector) |-> last.vector[i].f])
           /\ metadata = Append(last.pre.metadata, last.meta)
    /\ (last.op \in {"search", "size"} \/ last.outcome = "DimensionMismatch") =>
           Index = last.pre
    /\ \A i \in 1..Len(metadata) : metadata[i] = {<<"id", i>>}
    /\ (last.op = "search" /\ last.outcome = "ok") =>
           \A j \in 1..Len(last.results) :
               Get(last.results[j], "id") = Get(last.results[j], "index") + 1

\* a search on an index of MaxSize different entries has returned them
\* all, the last one added first
C19_Witness ==
    /\ last.op = "search" /\ last.outcome = "ok"
    /\ Len(vectors) = MaxSize /\ Len(last.results) = MaxSize
    /\ vectors[1] # vectors[MaxSize]
    /\ Get(last.results[1], "index") = MaxSize - 1
    /\ Get(last.results[1], "id") = MaxSize

\* C20: two results of one search that have equal scores appear in the
\* order of their positions in the index, the smaller index field first.
C20_TiesInInsertionOrder ==
    (last.op = "search" /\ last.outcome = "ok") =>
        \A i, j \in 1..Len(last.results) :
            (i < j /\ ScoreEq(Score(last.results[i]), Score(last.results[j]))) =>
                Get(last.results[i], "index") < Get(last.results[j], "index")

\* a search has returned two different vectors with the same score, not
\* zero, the one added first before the other
C20_Witness ==
    /\ last.op = "search" /\ last.outcome = "ok"
    /\ Len(last.results) >= 2
    /\ ScoreEq(Score(last.results[1]), Score(last.results[2]))
    /\ Score(last.results[1]).num # 0
    /\ vectors[Get(last.results[1], "index") + 1]
           # vectors[Get(last.results[2], "index") + 1]
    /\ Get(last.results[1], "index") = 0

\* a vector of zero magnitude
IsZeroVector(v) == \A i \in 1..Len(v) : v[i] = 0

\* the number 0, and not the NaN of 0 / 0
IsExactlyZero(s) == s.num = 0 /\ s.na > 0 /\ s.nb > 0

\* C21: the similarity of a zero vector and any vector is exactly 0: for
\* every query of the index's dimensions against every stored vector, and
\* in every result a search has returned.
C21_ZeroMagnitudeScoresZero ==
    /\ \A q \in ValidQueries : \A i \in 1..Len(vectors) :
           (IsZeroVector(Float32Array(q)) \/ IsZeroVector(vectors[i])) =>
               cosineSimilarity(Float32Array(q), vectors[i]) = Zero
    /\ (last.op = "search" /\ last.outcome = "ok") =>
           \A j \in 1..Len(last.results) :
               (\/ IsZeroVector(last.query)
                \/ IsZeroVector(vectors[Get(last.results[j], "index") + 1])) =>
                   IsExactlyZero(Score(last.results[j]))

\* a search with a non-zero query has returned a stored zero vector and a
\* stored vector that scores above it
C21_Witness ==
    /\ last.op = "search" /\ last.outcome = "ok"
    /\ ~IsZeroVector(last.query)
    /\ Len(last.results) = 2
    /\ IsZeroVector(vectors[Get(last.results[2], "index") + 1])
    /\ Score(last.results[1]).num > 0

\* a score equal to 1
IsOne(s) == s.num > 0 /\ s.num * s.num = s.na * s.nb

\* b is a multiple of a by a positive factor
SameDirection(a, b) ==
    /\ \A i, j \in 1..Len(a) : a[i] * b[j] = a[j] * b[i]
    /\ \E i \in 1..Len(a) : a[i] * b[i] > 0

\* the example of the specification, and the same query against a stored
\* vector of twice the magnitude
ExampleParallel ==
    LET q == <<ToDouble(3), ToDouble(4), ToDouble(0)>>
    IN  << SearchIn(<< <<3, 4, 0>> >>, << {} >>, q, 1),
           SearchIn(<< <<0, 1, 0>>, <<6, 8, 0>> >>, << {}, {} >>, q, 1) >>

\* C22: a stored vector that is a positive multiple of the query (the
\* query itself included) has similarity 1 to it, and whenever the index
\* holds such a vector the first result of a search for k >= 1 is one of
\* them, with score 1.
C22_ParallelScoresOne ==
    /\ \A n \in 1..2 : /\ Len(ExampleParallel[n]) = 1
                       /\ IsOne(Score(ExampleParallel[n][1]))
    /\ Get(ExampleParallel[2][1], "index") = 1
    /\ \A q \in WideArrays : \A i \in 1..Len(vectors) :
           SameDirection(Float32Array(q), vectors[i]) =>
               IsOne(cosineSimilarity(Float32Array(q), vectors[i]))
    /\ (/\ last.op = "search" /\ last.outcome = "ok" /\ last.k >= 1
        /\ \E i \in 1..Len(vectors) : SameDirection(last.query, vectors[i])) =>
           /\ IsOne(Score(last.results[1]))
           /\ SameDirection(last.query,
                            vectors[Get(last.results[1], "index") + 1])

\* a search has ranked a stored vector of another magnitude than the
\* query's, added last, before a vector of another direction
C22_Witness ==
    /\ last.op = "search" /\ last.outcome = "ok"
    /\ Len(vectors) = MaxSize /\ Len(last.results) = MaxSize
    /\ Get(last.results[1], "index") = MaxSize - 1
    /\ vectors[MaxSize] # last.query
    /\ SameDirection(last.query, vectors[MaxSize])
    /\ ~SameDirection(last.query, vectors[1])
    /\ Score(last.results[2]).num > 0

\* C23: a startup whose load returned true with a non-empty index makes no
\* add and no save call and never enters the rebuild; a startup that gets
\* ready after a load that failed or gave an empty index has added one
\* entry per quiz question, in order, and saved them under
\* 'ml-quizzes-index'; and a startup whose load meets no storage fault
\* while that record is stored takes the index from it.
C23_StartupUsesCache ==
    /\ (startup.pc # "none" /\ startup.cached) =>
           /\ startup.adds = 0 /\ startup.saves = 0
           /\ startup.pc \in {"model", "ready", "failed"}
    /\ (startup.pc = "ready" /\ ~startup.cached) =>
           /\ startup.adds = NumQuizzes /\ startup.saves = 1
           /\ Len(vectors) = NumQuizzes /\ Len(metadata) = NumQuizzes
           /\ \A i \in 0..(NumQuizzes - 1) :
                  /\ metadata[i + 1] = QuizMeta(i)
                  /\ vectors[i + 1] = Float32Array(Embedding(i))
           /\ StoreGet(IndexName) = {RecordOf(IndexName, Index)}
    /\ (/\ startup.pc = "model"
        /\ last.cause \notin RequestFaults
        /\ StoreGet(IndexName) # {}) =>
           /\ startup.cached
           /\ Len(vectors) = NumQuizzes

\* a later startup is ready with the NumQuizzes entries an earlier one
\* built and saved, having added and saved nothing
C23_Witness ==
    /\ startup.pc = "ready" /\ startup.cached
    /\ startup.adds = 0 /\ startup.saves = 0
    /\ Len(vectors) = NumQuizzes
    /\ Has(saved, IndexName)

\* C24: when the caller has assigned to an element of an array it passed
\* to add, the index holds the vectors and metadata it held before the
\* assignment, every search returns what it would have returned and a save
\* would write the record it would have written.
C24_AddCopiesVector ==
    last.op = "mutate" =>
        /\ Index = last.pre
        /\ \A q \in {p \in Queries : Len(p) = dimensions} :
               SearchIn(vectors, metadata, q, DefaultK)
                   = SearchIn(last.pre.vectors, last.pre.metadata, q, DefaultK)
        /\ \A n \in Names : RecordOf(n, Index) = RecordOf(n, last.pre)

\* the caller's array now rounds to other float32 values than the entry
\* that add stored from it, the last of MaxSize entries
C24_Witness ==
    /\ last.op = "mutate"
    /\ Len(vectors) = MaxSize
    /\ Float32Array(last.vector) # vectors[Len(vectors)]

\* C25: every record in the store has as many metadata entries as vectors,
\* and when a save has resolved the record under its name is the one of
\* the index state save was called on.
C25_SavedRecordIsConsistent ==
    /\ \A r \in store : Len(Get(r, "metadata")) = Len(Get(r, "vectors"))
    /\ (last.op = "save" /\ last.outcome = "resolved") =>
           StoreGet(last.name) = {RecordOf(last.name, last.called)}

\* what getRequest.onsuccess makes of a stored record that has all fields
Loaded(data) ==
    [dimensions |-> Get(data, "dimensions"),
     vectors |-> [i \in 1..Len(Get(data, "vectors")) |->
                      Float32Array(Get(data, "vectors")[i])],
     metadata |-> Get(data, "metadata")]

\* a step of add or clear: the index grows by one entry at the end, or it
\* is emptied, and dimensions stays
AddOrClearStep ==
    /\ dimensions' = dimensions
    /\ \/ /\ Len(vectors') = Len(vectors) + 1
          /\ Len(metadata') = Len(metadata) + 1
          /\ SubSeq(vectors', 1, Len(vectors)) = vectors
          /\ SubSeq(metadata', 1, Len(metadata)) = metadata
       \/ vectors' = <<>> /\ metadata' = <<>>

\* C26: while a load is pending, with add, search, size and clear running
\* between its handlers, a step either leaves the index as it is, or is an
\* add or a clear of the state before it, or ends the load true with
\* dimensions, vectors and metadata all taken from the stored record: no
\* step replaces dimensions and leaves vectors or metadata for later.
C26_LoadIsAllOrNothing ==
    [][pending.kind = "load" =>
           \/ Index' = Index
           \/ AddOrClearStep
           \/ /\ \E data \in StoreGet(pending.name) : Index' = Loaded(data)
              /\ pending' = Idle
              /\ last'.op = "load" /\ last'.outcome = "true"]_vars

\* a load has resolved true on an index of other dimensions than the
\* stored record's, an add having run between the call and the last
\* handler; the index is the record's, whole
C26_Witness ==
    /\ last.op = "load" /\ last.outcome = "true"
    /\ Len(last.pre.vectors) = Len(last.called.vectors) + 1
    /\ last.pre.dimensions # dimensions
    /\ Len(vectors) # Len(last.pre.vectors)
    /\ \E data \in StoreGet(last.name) : Index = Loaded(data)

\* C27: after a search or a size, and after a save or a delete whose last
\* handler has run (resolved, rejected or left pending by a throw),
\* dimensions, vectors and metadata are what they were before the call.
C27_ReadOnlyOperations ==
    /\ last.op \in {"search", "size"} => Index = last.pre
    /\ (last.op \in {"save", "delete"} /\ Settled) =>
           /\ Index = last.called
           /\ Index = last.pre

\* a delete has resolved, having removed the record saved from the index
\* of MaxSize entries that called it
C27_Witness ==
    /\ last.op = "delete" /\ last.outcome = "resolved"
    /\ Under(last.stored, last.name) # {}
    /\ StoreGet(last.name) = {}
    /\ Len(vectors) = MaxSize /\ Len(metadata) = MaxSize

\* C28: in the results of a search, the record of an entry whose metadata
\* has a field score carries the metadata's score, and the record of an
\* entry whose metadata has a field index carries the metadata's index; a
\* field the metadata lacks holds the cosine similarity or the 0-based
\* position.  (The entry of a record is the one its id numbers.)
C28_MetadataFieldsTakePrecedence ==
    (last.op = "search" /\ last.outcome = "ok") =>
        \A j \in 1..Len(last.results) :
            LET r == last.results[j]
                i == Get(r, "id")
                m == metadata[i]
            IN  /\ Get(r, "score") =
                       IF Has(m, "score") THEN Get(m, "score")
                       ELSE cosineSimilarity(last.query, vectors[i])
                /\ Get(r, "index") =
                       IF Has(m, "index") THEN Get(m, "index") ELSE i - 1

\* a search has returned MaxSize records: the first comes from the last
\* entry added and carries the score and the index of its metadata, not
\* the similarity 0 and the position it has; the last carries computed
\* values
C28_Witness ==
    /\ last.op = "search" /\ last.outcome = "ok"
    /\ Len(last.results) = MaxSize
    /\ Get(last.results[1], "id") = MaxSize
    /\ Has(metadata[MaxSize], "score") /\ Has(metadata[MaxSize], "index")
    /\ Get(last.results[1], "index") # MaxSize - 1
    /\ ~ScoreEq(Get(last.results[1], "score"),
                cosineSimilarity(last.query, vectors[MaxSize]))
    /\ metadata[1] = {<<"id", 1>>}
    /\ Get(last.results[MaxSize], "index") = 0

\* C29: after a click on the button while it is labelled 'Next Question',
\* currentQuizIndex is one more than it was before the click.
C29_NextAdvancesByOne ==
    (last.op = "clickNext" /\ last.text = "Next Question") =>
        currentQuizIndex = last.index + 1

\* C30: in the semantic quiz quizScore is never negative and never more
\* than quizAttempts (the score being counted in tenths), and right after
\* a retry the last evaluation was one of 0 points, quizAttempts is what
\* it was before that evaluation counted and quizScore is what it was.
C30_ScoreWithinAttempts ==
    /\ 0 <= quizScore
    /\ quizScore <= 10 * quizAttempts
    /\ last.op = "retry" =>
           /\ last.failed.op = "evaluate" /\ last.failed.outcome = "ok"
           /\ last.failed.points = 0
           /\ quizAttempts = last.failed.attempts
           /\ quizScore = last.failed.score

\* the second question has been answered wrong after a full score on the
\* first, and the retry has brought quizAttempts back to 1
C30_Witness ==
    /\ last.op = "retry"
    /\ currentQuizIndex = 1
    /\ quizAttempts = 1 /\ quizScore = 10
    /\ ~dom.submitDisabled /\ ~dom.nextShown

====
